---- MODULE Spec2Model ----
(***************************************************************************)
(* Model of the crewai_data_analyst financial-analysis workflow:           *)
(*   - the ratio-table column normalizer (_process_ratio_dataframe), in    *)
(*     its two copies (tools/custom_tool.py and app.py);                   *)
(*   - the market-data fetcher, task construction, the crew engine call    *)
(*     and the report writer of run_analysis, in its two implementations   *)
(*     (app.FinancialDataAnalyst and crew.FinancialAnalysisCrew).          *)
(*                                                                         *)
(* Python strings are sequences of one-character strings, so that          *)
(* str.replace is computed character by character.  A column-label value   *)
(* is a record [type, val]: a str carries its characters, any other        *)
(* Python type (float NaN, int) carries none.                              *)
(***************************************************************************)
EXTENDS Integers, Sequences, FiniteSets, TLC

(***************************************************************************)
(* Bounds of the model.                                                    *)
(***************************************************************************)
MaxCatLen == 1
MaxMetricLen == 2
MaxCols == 2
MaxRows == 1
MaxClock == 1
MaxOutputs == 2
MaxRuns == 3

VARIABLES
    copy,          \* normalizer run: the copy called, "tool" (custom_tool.py) or "app" (app.py)
    ratios_df,     \* normalizer run: the table handed to _process_ratio_dataframe
    npc,           \* normalizer run: "call", "returned", "reapplied"
    norm_result,   \* normalizer run: outcome of the call on ratios_df
    norm_again     \* normalizer run: outcome of the call on the first call's output

norm_vars == <<copy, ratios_df, npc, norm_result, norm_again>>

VARIABLES
    impl,             \* run_analysis of "app" (app.FinancialDataAnalyst) or "crew" (crew.FinancialAnalysisCrew)
    pc,               \* the statement run_analysis is at
    stock_symbol,     \* argument of run_analysis
    analysis_type,    \* argument of run_analysis
    clock,            \* the wall clock read by datetime.now()
    calls,            \* the upstream calls and file writes made so far, in order, each with its outcome
    raw_ratios,       \* fetch_financial_data: local raw_ratios
    processed_ratios, \* fetch_financial_data: local processed_ratios
    financial_data,   \* what fetch_financial_data returned to its caller
    company_name,     \* the resolved company name
    tasks,            \* the Task objects built so far, in order
    engine,           \* the crew engine: number of kickoffs and the tasks submitted
    result,           \* what crew.kickoff() returned: its tasks_output
    report_md,        \* the file report.md
    news_md,          \* the file news.md
    exported,         \* which report files this run wrote successfully
    retval            \* what run_analysis returned

run_vars == <<impl, pc, stock_symbol, analysis_type, clock, calls, raw_ratios, processed_ratios,
              financial_data, company_name, tasks, engine, result, report_md, news_md,
              exported, retval>>

VARIABLES
    other_files       \* the files of the working directory other than report.md and news.md

VARIABLES
    cwd,              \* delete_reports: the names present in the working directory
    cwd_before,       \* delete_reports: the names present when the script started
    dpc,              \* delete_reports: the statement the script is at
    di,               \* delete_reports: the index of the running loop
    lock_files,       \* delete_reports: what glob.glob("chromadb-*.lock") returned
    removes,          \* delete_reports: the os.remove calls made so far, each with its outcome
    stdout            \* delete_reports: the lines printed so far

del_vars == <<cwd, cwd_before, dpc, di, lock_files, removes, stdout>>

VARIABLES
    entry,            \* the entry point started: main.kickoff, main.run_crew, main.main or app.main
    epc,              \* the statement the entry point is at
    api_key,          \* what os.getenv("OPENAI_API_KEY") returns
    instance,         \* the analyst object the entry point constructed
    console           \* the messages the entry point printed

entry_vars == <<entry, epc, api_key, instance, console>>

VARIABLES
    owner,            \* instance reuse: the class of the instance, "app" or "crew"
    heap,             \* instance reuse: the objects allocated so far, by identity
    self_agents,      \* instance reuse: the identities of the agents the instance holds
    run_log           \* instance reuse: per run_analysis call, the objects it built and used

inst_vars == <<owner, heap, self_agents, run_log>>

\* what a run of run_analysis leaves alone
beside_run == <<norm_vars, other_files, del_vars, entry_vars, inst_vars>>

(***************************************************************************)
(* Python values.                                                          *)
(***************************************************************************)
Str(s) == [type |-> "str", val |-> s]
NaN == [type |-> "float", val |-> <<>>]
IntLabel == [type |-> "int", val |-> <<>>]

\* the characters labels are built from: a letter, the underscore, the
\* characters the normalizer rewrites, the hyphen and a tab (whitespace
\* that is not the space character)
Alphabet == {"a", "_", " ", "-", "(", ")", "%", ".", "/", "\t"}

\* all strings over Alphabet of length at most n
StringsUpTo(n) == UNION {[1..k -> Alphabet] : k \in 0..n}

Meta == <<"M", "e", "t", "a">>
Ticker == <<"T", "i", "c", "k", "e", "r">>
YearReport == <<"Y", "e", "a", "r", " ", "R", "e", "p", "o", "r", "t">>
Profitability == <<"P", "r", "o", "f", "i", "t", "a", "b", "i", "l", "i", "t", "y">>
CapitalStructure == <<"C", "a", "p", "i", "t", "a", "l", " ", "S", "t", "r", "u", "c", "t", "u", "r", "e">>
LongTerm == <<"L", "o", "n", "g", "-", "T", "e", "r", "m">>
ROEPercent == <<"R", "O", "E", " ", "(", "%", ")">>
DebtEquity == <<"D", "e", "b", "t", "/", "E", "q", "u", "i", "t", "y">>
Profitability_ROE_Pct == <<"P", "r", "o", "f", "i", "t", "a", "b", "i", "l", "i", "t", "y", "_", "R", "O", "E", "_", "P", "c", "t">>

(***************************************************************************)
(* str.replace(old, new) for a one-character old: every occurrence of old  *)
(* is replaced by the characters of new, left to right.                    *)
(***************************************************************************)
RECURSIVE replace(_, _, _)
replace(s, old, new) ==
    IF s = <<>> THEN <<>>
    ELSE (IF Head(s) = old THEN new ELSE <<Head(s)>>) \o replace(Tail(s), old, new)

(***************************************************************************)
(* Tables.  kind is the Python type of the object handed to the            *)
(* normalizer; a DataFrame has nrows rows and a column index that is a     *)
(* MultiIndex (multi, labels are tuples of level values) or a flat Index   *)
(* (labels are values).                                                    *)
(***************************************************************************)
DataFrame(n, m, cols) == [kind |-> "DataFrame", nrows |-> n, multi |-> m, columns |-> cols]
NoneObj == [kind |-> "NoneType", nrows |-> 0, multi |-> FALSE, columns |-> <<>>]
SeriesObj(n) == [kind |-> "Series", nrows |-> n, multi |-> FALSE, columns |-> <<>>]

\* (mutant) the table counts as empty only when it has no column
empty_ignores_rows(df) == Len(df.columns) = 0

\* DataFrame.empty / Series.empty: some axis has length 0
empty(df) ==
    IF df.kind = "Series" THEN df.nrows = 0
    ELSE df.nrows = 0 \/ Len(df.columns) = 0

\* the outcome of a call: it returned df, or it raised
Returned(df) == [raised |-> FALSE, df |-> df]
Raised == [raised |-> TRUE, df |-> NoneObj]

(***************************************************************************)
(* FinancialDataTool._process_ratio_dataframe (tools/custom_tool.py).      *)
(***************************************************************************)
\* line 53
tool_category(c) == replace(replace(c, " ", <<"_">>), "-", <<"_">>)

\* (mutant) line 54 without .replace('.', '')
tool_metric_keeps_period(m) ==
    replace(replace(replace(replace(replace(m,
        " ", <<"_">>), "(", <<>>), ")", <<>>), "%", <<"P", "c", "t">>), "/", <<"_", "t", "o", "_">>)

\* line 54
tool_metric(m) ==
    replace(replace(replace(replace(replace(replace(m,
        " ", <<"_">>), "(", <<>>), ")", <<>>), "%", <<"P", "c", "t">>), ".", <<>>), "/", <<"_", "t", "o", "_">>)

\* (mutant) line 63 with the category's .replace('-', '_') added
tool_clean_rewrites_hyphen(col) ==
    replace(replace(replace(replace(replace(replace(replace(col,
        " ", <<"_">>), "-", <<"_">>), "(", <<>>), ")", <<>>), "%", <<"P", "c", "t">>), ".", <<>>), "/", <<"_", "t", "o", "_">>)

\* line 63
tool_clean(col) ==
    replace(replace(replace(replace(replace(replace(col,
        " ", <<"_">>), "(", <<>>), ")", <<>>), "%", <<"P", "c", "t">>), ".", <<>>), "/", <<"_", "t", "o", "_">>)

\* (mutant) lines 48-55 with the Meta metric sanitised like any other metric
tool_new_column_cleans_meta(col) ==
    IF col[1] = Str(Meta) THEN Str(tool_metric(col[2].val))
    ELSE Str(tool_category(col[1].val) \o <<"_">> \o tool_metric(col[2].val))

\* lines 48-55: one iteration of the loop; col[0], col[1] are col[1], col[2] here
tool_new_column(col) ==
    IF col[1] = Str(Meta) THEN col[2]
    ELSE Str(tool_category(col[1].val) \o <<"_">> \o tool_metric(col[2].val))

\* an iteration raises AttributeError when .replace is called on a non-str
tool_column_raises(multi, col) ==
    IF multi
    THEN col[1] # Str(Meta) /\ (col[1].type # "str" \/ col[2].type # "str")
    ELSE col.type # "str"

FinancialDataTool_process_ratio_dataframe(df) ==
    IF df.kind = "NoneType" THEN Raised                \* line 36: .empty outside the try
    ELSE IF empty(df) THEN Returned(df)         \* lines 36-37
    ELSE IF df.kind # "DataFrame" THEN Returned(df)  \* .columns raises in the try, lines 68-70
    ELSE IF \E i \in 1..Len(df.columns) : tool_column_raises(df.multi, df.columns[i])
         THEN Returned(df)                             \* lines 68-70
    ELSE IF df.multi
         THEN Returned(DataFrame(df.nrows, FALSE,
                  [i \in 1..Len(df.columns) |-> tool_new_column(df.columns[i])]))
         ELSE Returned(DataFrame(df.nrows, FALSE,
                  [i \in 1..Len(df.columns) |-> Str(tool_clean(df.columns[i].val))]))

(***************************************************************************)
(* FinancialDataAnalyst._process_ratio_dataframe (app.py).                 *)
(***************************************************************************)
\* (mutant) line 128 without .replace('-', '_')
app_category_keeps_hyphen(c) == replace(c, " ", <<"_">>)

\* line 128
app_category(c) == replace(replace(c, " ", <<"_">>), "-", <<"_">>)

\* line 129
app_metric(m) ==
    replace(replace(replace(replace(replace(replace(m,
        " ", <<"_">>), "(", <<>>), ")", <<>>), "%", <<"P", "c", "t">>), ".", <<>>), "/", <<"_", "t", "o", "_">>)

\* (mutant) line 138 with '/' rewritten to '_' instead of '_to_'
app_clean_short_slash(col) ==
    replace(replace(replace(replace(replace(replace(col,
        " ", <<"_">>), "(", <<>>), ")", <<>>), "%", <<"P", "c", "t">>), ".", <<>>), "/", <<"_">>)

\* line 138
app_clean(col) ==
    replace(replace(replace(replace(replace(replace(col,
        " ", <<"_">>), "(", <<>>), ")", <<>>), "%", <<"P", "c", "t">>), ".", <<>>), "/", <<"_", "t", "o", "_">>)

\* lines 123-130
app_new_column(col) ==
    IF col[1] = Str(Meta) THEN col[2]
    ELSE Str(app_category(col[1].val) \o <<"_">> \o app_metric(col[2].val))

app_column_raises(multi, col) ==
    IF multi
    THEN col[1] # Str(Meta) /\ (col[1].type # "str" \/ col[2].type # "str")
    ELSE col.type # "str"

FinancialDataAnalyst_process_ratio_dataframe(df) ==
    IF df.kind = "NoneType" THEN Raised                \* line 111: .empty outside the try
    ELSE IF empty(df) THEN Returned(df)         \* lines 111-112
    ELSE IF df.kind # "DataFrame" THEN Returned(df)  \* lines 143-145
    ELSE IF \E i \in 1..Len(df.columns) : app_column_raises(df.multi, df.columns[i])
         THEN Returned(df)                             \* lines 143-145
    ELSE IF df.multi
         THEN Returned(DataFrame(df.nrows, FALSE,
                  [i \in 1..Len(df.columns) |-> app_new_column(df.columns[i])]))
         ELSE Returned(DataFrame(df.nrows, FALSE,
                  [i \in 1..Len(df.columns) |-> Str(app_clean(df.columns[i].val))]))

\* the copy of the normalizer a caller uses
process_ratio_dataframe(which, df) ==
    IF which = "tool" THEN FinancialDataTool_process_ratio_dataframe(df)
    ELSE FinancialDataAnalyst_process_ratio_dataframe(df)


(***************************************************************************)
(* Values of a run of run_analysis.                                        *)
(***************************************************************************)
Symbols == {"REE", "VIC"}
AnalysisTypes == {"comprehensive", "profitability", "liquidity", "visualization"}
Blobs == {"Hello", "---"}

\* a Python dict: a function on its keys; {} is the function on no key
EmptyMapping == [k \in {} |-> 0]
NotCalled == [k \in {"not_called"} |-> TRUE]

\* bool(d) for a dict d, as tested by `if not financial_data`
truthy(d) == DOMAIN d # {}

\* a table of a statement other than the ratios, as the upstream client returns it
Statement == DataFrame(1, FALSE, <<Str(<<"a">>)>>)

\* the ratio tables the upstream client returns in a run
RatioSamples ==
    {DataFrame(1, TRUE, << <<Str(Meta), Str(Ticker)>>, <<Str(Profitability), Str(ROEPercent)>> >>),
     DataFrame(1, TRUE, << <<Str(Profitability), NaN>> >>),
     DataFrame(0, TRUE, <<>>),
     SeriesObj(1),
     NoneObj}

\* a file of the working directory: absent, or a sequence of lines, each a sequence of text pieces
Absent == [exists |-> FALSE, lines |-> <<>>]
File(lines) == [exists |-> TRUE, lines |-> lines]
OldFile == File(<< <<"old">> >>)

\* files of the working directory that neither app.py nor crew.py opens
OtherNames == {"executive_summary.md", "chromadb-abc.lock"}

\* (mutant) the file is opened with 'a'
WriteOutcomes_appends(old, content) ==
    {[ok |-> TRUE, file |-> File(old.lines \o content)],
     [ok |-> FALSE, file |-> old]}

\* what open(path, 'w') followed by the writes can do to a file holding old: write all of
\* content, fail in open (the file is as before) or fail after open truncated the file
WriteOutcomes(old, content) ==
    {[ok |-> TRUE, file |-> File(content)],
     [ok |-> FALSE, file |-> old],
     [ok |-> FALSE, file |-> File(<<>>)]}

\* datetime.now().strftime(...) of a clock reading
strftime(t) == "2026-01-01 00:00:0" \o ToString(t)

\* str.title() on the analysis types
title(t) ==
    CASE t = "comprehensive" -> "Comprehensive"
      [] t = "profitability" -> "Profitability"
      [] t = "liquidity" -> "Liquidity"
      [] t = "visualization" -> "Visualization"

\* a TaskOutput of the engine and its str()
TaskOutput(raw) == [raw |-> raw]
str_of(o) == o.raw

\* the value run_analysis returns: the engine's result, or the error string
NoReturn == [kind |-> "none", msg |-> <<>>]
ResultReturn == [kind |-> "result", msg |-> <<>>]
\* the error string: the marker and "Error during analysis: ", then the exception text
ErrorMarker == "U+274C "
ErrorString(e) == [kind |-> "error", msg |-> <<ErrorMarker, "Error during analysis: ">> \o e]

\* the copy of the fetcher and normalizer an implementation uses
copy_of(i) == IF i = "app" THEN "app" ELSE "tool"

\* the variables of a run when no run is made
RunIdle ==
    /\ impl = "app"
    /\ pc = "idle"
    /\ stock_symbol = "REE"
    /\ analysis_type = "comprehensive"
    /\ clock = 0
    /\ calls = <<>>
    /\ raw_ratios = NoneObj
    /\ processed_ratios = NoneObj
    /\ financial_data = NotCalled
    /\ company_name = ""
    /\ tasks = <<>>
    /\ engine = [runs |-> 0, tasks |-> <<>>]
    /\ result = <<>>
    /\ report_md = Absent
    /\ news_md = Absent
    /\ exported = {}
    /\ retval = NoReturn
    /\ other_files = [n \in OtherNames |-> Absent]

\* the variables of delete_reports when the script is not run
DeleteIdle ==
    /\ cwd = {}
    /\ cwd_before = {}
    /\ dpc = "idle"
    /\ di = 1
    /\ lock_files = <<>>
    /\ removes = <<>>
    /\ stdout = <<>>

\* the variables of the entry points when run_analysis is called directly
EntryIdle ==
    /\ entry = "none"
    /\ epc = "idle"
    /\ api_key = "sk-key"
    /\ instance = "none"
    /\ console = <<>>

\* the variables of the instance reuse when no instance is followed
InstanceIdle ==
    /\ owner = "app"
    /\ heap = <<>>
    /\ self_agents = {}
    /\ run_log = <<>>

\* what a run of the normalizer alone leaves alone
beside_norm == <<run_vars, other_files, del_vars, entry_vars, inst_vars>>


(***************************************************************************)
(* The tables the normalizer is run on.                                    *)
(***************************************************************************)
\* the characters a generated category is built from
CategoryAlphabet == {"a", " ", "-", "/", "%"}

CategoryPool ==
    {Str(s) : s \in UNION {[1..k -> CategoryAlphabet] : k \in 0..MaxCatLen}}
    \cup {Str(Meta), Str(Profitability), Str(CapitalStructure), Str(LongTerm)}

MetricPool ==
    {Str(s) : s \in StringsUpTo(MaxMetricLen)}
    \cup {Str(Ticker), Str(YearReport), Str(ROEPercent), Str(DebtEquity)}

\* labels of the tables with several columns, and of the malformed tables
SampleMulti ==
    {<<Str(Meta), Str(Ticker)>>, <<Str(Meta), Str(YearReport)>>,
     <<Str(Profitability), Str(ROEPercent)>>, <<Str(CapitalStructure), Str(DebtEquity)>>,
     <<Str(LongTerm), Str(<<"a", ".">>)>>,
     <<NaN, Str(Ticker)>>, <<Str(Profitability), NaN>>, <<Str(Meta), NaN>>}

SampleFlat ==
    {Str(Ticker), Str(YearReport), Str(ROEPercent), Str(DebtEquity),
     Str(<<"a", "-", "a">>), Str(Profitability_ROE_Pct), IntLabel, NaN}

SeqsUpTo(S, n) == UNION {[1..k -> S] : k \in 0..n}

NormInputs ==
    \* one column, every generated label, one row
    {DataFrame(1, TRUE, <<col>>) : col \in CategoryPool \X MetricPool}
    \cup {DataFrame(1, FALSE, <<col>>) : col \in MetricPool}
    \* up to MaxCols sample columns, 0..MaxRows rows
    \cup {DataFrame(n, TRUE, cols) : n \in 0..MaxRows, cols \in SeqsUpTo(SampleMulti, MaxCols)}
    \cup {DataFrame(n, FALSE, cols) : n \in 0..MaxRows, cols \in SeqsUpTo(SampleFlat, MaxCols)}
    \* objects that are not a DataFrame
    \cup {NoneObj} \cup {SeriesObj(n) : n \in 0..MaxRows}

InitNorm ==
    /\ RunIdle
    /\ DeleteIdle
    /\ EntryIdle
    /\ InstanceIdle
    /\ copy \in {"tool", "app"}
    /\ ratios_df \in NormInputs
    /\ npc = "call"
    /\ norm_result = Raised
    /\ norm_again = Raised

\* _process_ratio_dataframe(ratios_df)
NormCall ==
    /\ npc = "call"
    /\ norm_result' = process_ratio_dataframe(copy, ratios_df)
    /\ npc' = "returned"
    /\ UNCHANGED <<copy, ratios_df, norm_again>>
    /\ UNCHANGED beside_norm

\* _process_ratio_dataframe applied to what the first call returned
NormReapply ==
    /\ npc = "returned"
    /\ ~norm_result.raised
    /\ norm_again' = process_ratio_dataframe(copy, norm_result.df)
    /\ npc' = "reapplied"
    /\ UNCHANGED <<copy, ratios_df, norm_result>>
    /\ UNCHANGED beside_norm

NextNorm == NormCall \/ NormReapply


\* the variables of the normalizer run when the normalizer is not run alone
NormIdle ==
    /\ copy = "tool"
    /\ ratios_df = NoneObj
    /\ npc = "idle"
    /\ norm_result = Raised
    /\ norm_again = Raised

(***************************************************************************)
(* fetch_financial_data: FinancialDataTool (tools/custom_tool.py 72-109),  *)
(* used by FinancialAnalysisCrew, and the same code in                     *)
(* FinancialDataAnalyst (app.py 147-184).  The whole body is in one try;   *)
(* any exception ends the call with the empty mapping.                     *)
(***************************************************************************)
\* (mutant) a failed upstream call is swallowed and the fetch goes on
Upstream_swallows_failure(op, next) ==
    /\ pc = op
    /\ \E ok \in BOOLEAN : calls' = Append(calls, [op |-> op, ok |-> ok])
    /\ pc' = next
    /\ UNCHANGED <<impl, stock_symbol, analysis_type, clock, company_name, tasks, engine, result,
                   report_md, news_md, exported, retval, financial_data>>
    /\ UNCHANGED beside_run

\* (mutant) a failed upstream call is made again
Upstream_retries(op, next) ==
    /\ pc = op
    /\ \E ok \in BOOLEAN :
          /\ calls' = Append(calls, [op |-> op, ok |-> ok])
          /\ pc' = IF ok THEN next ELSE op
    /\ UNCHANGED <<impl, stock_symbol, analysis_type, clock, company_name, tasks, engine, result,
                   report_md, news_md, exported, retval, financial_data>>
    /\ UNCHANGED beside_run

\* one upstream call made at pc = op: it returns, and the fetch goes on at next, or it
\* raises, and the except clause returns {}
Upstream(op, next) ==
    /\ pc = op
    /\ \E ok \in BOOLEAN :
          /\ calls' = Append(calls, [op |-> op, ok |-> ok])
          /\ IF ok
             THEN pc' = next /\ UNCHANGED financial_data
             ELSE pc' = "fetched" /\ financial_data' = EmptyMapping
    /\ UNCHANGED <<impl, stock_symbol, analysis_type, clock, company_name, tasks, engine, result,
                   report_md, news_md, exported, retval>>
    /\ UNCHANGED beside_run

\* line 84: Vnstock().stock(symbol, source="VCI")
FetchStockVCI == Upstream("Vnstock_VCI", "Vnstock_TCBS") /\ UNCHANGED <<raw_ratios, processed_ratios>>

\* line 85: Vnstock().stock(symbol, source="TCBS").company
FetchCompanyTCBS == Upstream("Vnstock_TCBS", "ratio") /\ UNCHANGED <<raw_ratios, processed_ratios>>

\* line 88: raw_ratios = stock.finance.ratio(...)
FetchRatio ==
    /\ Upstream("ratio", "process_ratio")
    /\ IF pc' = "process_ratio" THEN raw_ratios' \in RatioSamples ELSE UNCHANGED raw_ratios
    /\ UNCHANGED processed_ratios

\* line 91: processed_ratios = self._process_ratio_dataframe(raw_ratios)
FetchProcessRatios ==
    /\ pc = "process_ratio"
    /\ LET r == process_ratio_dataframe(copy_of(impl), raw_ratios)
       IN IF r.raised
          THEN pc' = "fetched" /\ financial_data' = EmptyMapping /\ UNCHANGED processed_ratios
          ELSE pc' = "cash_flow" /\ processed_ratios' = r.df /\ UNCHANGED financial_data
    /\ UNCHANGED <<impl, stock_symbol, analysis_type, clock, calls, raw_ratios, company_name, tasks,
                   engine, result, report_md, news_md, exported, retval>>
    /\ UNCHANGED beside_run

\* line 95: stock.finance.cash_flow(...)
FetchCashFlow == Upstream("cash_flow", "balance_sheet") /\ UNCHANGED <<raw_ratios, processed_ratios>>

\* line 96: stock.finance.balance_sheet(...)
FetchBalanceSheet == Upstream("balance_sheet", "income_statement") /\ UNCHANGED <<raw_ratios, processed_ratios>>

\* line 97: stock.finance.income_statement(...)
FetchIncomeStatement == Upstream("income_statement", "dividends") /\ UNCHANGED <<raw_ratios, processed_ratios>>

\* line 99: company.dividends()
FetchDividends == Upstream("dividends", "fetch_return") /\ UNCHANGED <<raw_ratios, processed_ratios>>

\* lines 94-105: the mapping is built, the two lines are printed (the second reads
\* processed_ratios.columns unless processed_ratios.empty) and the mapping is returned
FetchReturn ==
    /\ pc = "fetch_return"
    /\ pc' = "fetched"
    /\ financial_data' =
          IF processed_ratios.kind # "DataFrame" /\ ~empty(processed_ratios)
          THEN EmptyMapping
          ELSE [cash_flow |-> Statement, balance_sheet |-> Statement,
                income_statement |-> Statement, financial_ratios |-> processed_ratios,
                dividend_schedule |-> Statement, stock_symbol |-> stock_symbol]
    /\ UNCHANGED <<impl, stock_symbol, analysis_type, clock, calls, raw_ratios, processed_ratios,
                   company_name, tasks, engine, result, report_md, news_md, exported, retval>>
    /\ UNCHANGED beside_run

fetch_financial_data ==
    \/ FetchStockVCI
    \/ FetchCompanyTCBS
    \/ FetchRatio
    \/ FetchProcessRatios
    \/ FetchCashFlow
    \/ FetchBalanceSheet
    \/ FetchIncomeStatement
    \/ FetchDividends
    \/ FetchReturn

(***************************************************************************)
(* run_analysis.  Every statement of its body is inside one try; an        *)
(* exception ends the call in the except clause, which returns the error   *)
(* string (app.py 413-416, crew.py 238-241).                               *)
(***************************************************************************)
\* (mutant) the exception leaves run_analysis
Except_propagates(e) ==
    /\ pc' = "raised"
    /\ UNCHANGED retval

\* the except clause of run_analysis, reached with the exception text e
Except(e) ==
    /\ retval' = ErrorString(e)
    /\ pc' = "done"

KnownTypes == {"comprehensive", "profitability", "liquidity"}

\* the Task built for a prompt
Task(kind, agent) ==
    [kind |-> kind, agent |-> agent, symbol |-> stock_symbol, data |-> financial_data]

\* ---- app.FinancialDataAnalyst --------------------------------------------

\* create_analysis_task, app.py 198-202: the data is fetched first, then tested
AppCheckData ==
    /\ impl = "app" /\ pc = "fetched"
    /\ IF ~truthy(financial_data)
       THEN Except(<<"Could not fetch financial data for ", stock_symbol>>)
       ELSE pc' = "analysis_task" /\ UNCHANGED retval
    /\ UNCHANGED <<impl, stock_symbol, analysis_type, clock, calls, raw_ratios, processed_ratios,
                   financial_data, company_name, tasks, engine, result, report_md, news_md, exported>>
    /\ UNCHANGED beside_run

\* (mutant) the prompt is looked up with .get and a default, so every type builds a task
AppCreateAnalysisTask_defaults ==
    /\ impl = "app" /\ pc = "analysis_task"
    /\ IF "income_statement" \notin DOMAIN financial_data
       THEN Except(<<"'income_statement'">>) /\ UNCHANGED tasks
       ELSE /\ tasks' = Append(tasks, Task("analysis", "data_analyst_agent"))
            /\ pc' = "news_task"
            /\ UNCHANGED retval
    /\ UNCHANGED <<impl, stock_symbol, analysis_type, clock, calls, raw_ratios, processed_ratios,
                   financial_data, company_name, engine, result, report_md, news_md, exported>>
    /\ UNCHANGED beside_run

\* create_analysis_task, app.py 204-297: the context reads the five tables of
\* financial_data, then the prompt of the analysis type is looked up
AppCreateAnalysisTask ==
    /\ impl = "app" /\ pc = "analysis_task"
    /\ IF "income_statement" \notin DOMAIN financial_data
       THEN Except(<<"'income_statement'">>) /\ UNCHANGED tasks
       ELSE IF analysis_type \notin KnownTypes
       THEN Except(<<"'", analysis_type, "'">>) /\ UNCHANGED tasks
       ELSE /\ tasks' = Append(tasks, Task("analysis", "data_analyst_agent"))
            /\ pc' = "news_task"
            /\ UNCHANGED retval
    /\ UNCHANGED <<impl, stock_symbol, analysis_type, clock, calls, raw_ratios, processed_ratios,
                   financial_data, company_name, engine, result, report_md, news_md, exported>>
    /\ UNCHANGED beside_run

\* create_news_research_task, app.py 309-374: the company overview is looked up in
\* its own try; on any failure the symbol stands for the name
AppCreateNewsTask ==
    /\ impl = "app" /\ pc = "news_task"
    /\ \E found \in {"found", "missing", "failed"} :
          /\ calls' = Append(calls, [op |-> "company_info", ok |-> found # "failed"])
          /\ company_name' = IF found = "found" THEN "Company" ELSE stock_symbol
    /\ tasks' = Append(tasks, Task("news", "news_research_agent"))
    /\ pc' = "kickoff"
    /\ UNCHANGED <<impl, stock_symbol, analysis_type, clock, raw_ratios, processed_ratios,
                   financial_data, engine, result, report_md, news_md, exported, retval>>
    /\ UNCHANGED beside_run

\* (mutant) the crew is kicked off once the analysis task is built
AppKickoff_early ==
    /\ impl = "app" /\ pc = "news_task"
    /\ engine' = [runs |-> engine.runs + 1, tasks |-> tasks]
    /\ calls' = Append(calls, [op |-> "kickoff", ok |-> FALSE])
    /\ Except(<<"kickoff failed">>)
    /\ UNCHANGED <<impl, stock_symbol, analysis_type, clock, raw_ratios, processed_ratios,
                   financial_data, company_name, tasks, result, report_md, news_md, exported>>
    /\ UNCHANGED beside_run

\* run_analysis, app.py 393-403: the crew is built from the two tasks and kicked off
AppKickoff ==
    /\ impl = "app" /\ pc = "kickoff"
    /\ engine' = [runs |-> engine.runs + 1, tasks |-> tasks]
    /\ \/ /\ calls' = Append(calls, [op |-> "kickoff", ok |-> FALSE])
          /\ Except(<<"kickoff failed">>)
          /\ UNCHANGED result
       \/ /\ calls' = Append(calls, [op |-> "kickoff", ok |-> TRUE])
          /\ \E outs \in UNION {[1..n -> Blobs] : n \in 0..MaxOutputs} :
                result' = [i \in DOMAIN outs |-> TaskOutput(outs[i])]
          /\ pc' = "export"
          /\ UNCHANGED retval
    /\ UNCHANGED <<impl, stock_symbol, analysis_type, clock, raw_ratios, processed_ratios,
                   financial_data, company_name, tasks, report_md, news_md, exported>>
    /\ UNCHANGED beside_run

\* _export_to_report, app.py 434-448: the text of report.md
app_report_content(symbol, type, timestamp, body) ==
    << <<"# Financial Analysis Report">>,
       <<>>,
       <<"**", "Stock Symbol:** ", symbol, "  ">>,
       <<"**", "Analysis Type:** ", title(type), "  ">>,
       <<"**", "Generated:** ", timestamp, "  ">>,
       <<"**", "Generated by:** ", "CrewAI Financial Data Analyst">>,
       <<>>,
       <<"---">>,
       <<>>,
       <<str_of(body)>>,
       <<>>,
       <<"---">>,
       <<>>,
       <<"*This report was automatically generated by the CrewAI Financial Data Analyst agent using Vietnamese stock market data from vnstock.*">> >>

\* (mutant) app.py 470-475 without the closing separator
app_news_content_unclosed(symbol, timestamp, body) ==
    << <<"# ", symbol, " - Recent News & Market Intelligence">>,
       <<>>,
       <<"**", "Generated on:** ", timestamp>>,
       <<>>,
       <<"---">>,
       <<>>,
       <<str_of(body)>>,
       <<>>,
       <<"*This report was generated using CrewAI with Brave Search for market intelligence.*">> >>

\* _export_to_news, app.py 470-475: the text of news.md
app_news_content(symbol, timestamp, body) ==
    << <<"# ", symbol, " - Recent News & Market Intelligence">>,
       <<>>,
       <<"**", "Generated on:** ", timestamp>>,
       <<>>,
       <<"---">>,
       <<>>,
       <<str_of(body)>>,
       <<>>,
       <<"---">>,
       <<>>,
       <<"*This report was generated using CrewAI with Brave Search for market intelligence.*">> >>

\* run_analysis, app.py 408, and _export_to_report, app.py 418-458: tasks_output[0] is
\* read in run_analysis; the write is in its own try and its failure is only printed
AppExportReport ==
    /\ impl = "app" /\ pc = "export"
    /\ IF Len(result) < 1
       THEN Except(<<"list index out of range">>) /\ UNCHANGED <<clock, calls, report_md, exported>>
       ELSE /\ \E now \in clock..MaxClock :
                 /\ clock' = now
                 /\ \E w \in WriteOutcomes(report_md,
                                 app_report_content(stock_symbol, analysis_type, strftime(now), result[1])) :
                       /\ report_md' = w.file
                       /\ calls' = Append(calls, [op |-> "write report.md", ok |-> w.ok])
                       /\ exported' = IF w.ok THEN exported \cup {"report.md"} ELSE exported
            /\ pc' = "export_news"
            /\ UNCHANGED retval
    /\ UNCHANGED <<impl, stock_symbol, analysis_type, raw_ratios, processed_ratios,
                   financial_data, company_name, tasks, engine, result, news_md>>
    /\ UNCHANGED beside_run

\* run_analysis, app.py 409, and _export_to_news, app.py 460-480
AppExportNews ==
    /\ impl = "app" /\ pc = "export_news"
    /\ IF Len(result) < 2
       THEN Except(<<"list index out of range">>) /\ UNCHANGED <<clock, calls, news_md, exported>>
       ELSE /\ \E now \in clock..MaxClock :
                 /\ clock' = now
                 /\ \E w \in WriteOutcomes(news_md, app_news_content(stock_symbol, strftime(now), result[2])) :
                       /\ news_md' = w.file
                       /\ calls' = Append(calls, [op |-> "write news.md", ok |-> w.ok])
                       /\ exported' = IF w.ok THEN exported \cup {"news.md"} ELSE exported
            /\ pc' = "return"
            /\ UNCHANGED retval
    /\ UNCHANGED <<impl, stock_symbol, analysis_type, raw_ratios, processed_ratios,
                   financial_data, company_name, tasks, engine, result, report_md>>
    /\ UNCHANGED beside_run

\* run_analysis, app.py 411: return result
AppReturn ==
    /\ impl = "app" /\ pc = "return"
    /\ retval' = ResultReturn
    /\ pc' = "done"
    /\ UNCHANGED <<impl, stock_symbol, analysis_type, clock, calls, raw_ratios, processed_ratios,
                   financial_data, company_name, tasks, engine, result, report_md, news_md, exported>>
    /\ UNCHANGED beside_run

\* ---- crew.FinancialAnalysisCrew ------------------------------------------

\* get_company_info, crew.py 148-176, called at crew.py 191: the listing is looked up
\* in its own try; on any failure the symbol stands for the name
CrewGetCompanyInfo ==
    /\ impl = "crew" /\ pc = "company_info"
    /\ \E found \in {"found", "missing", "failed"} :
          /\ calls' = Append(calls, [op |-> "company_info", ok |-> found # "failed"])
          /\ company_name' = IF found = "found" THEN "Company" ELSE stock_symbol
    /\ pc' = "Vnstock_VCI"
    /\ UNCHANGED <<impl, stock_symbol, analysis_type, clock, raw_ratios, processed_ratios,
                   financial_data, tasks, engine, result, report_md, news_md, exported, retval>>
    /\ UNCHANGED beside_run

\* (mutant) crew.py 192-195 without the test of financial_data
CrewCheckData_untested ==
    /\ impl = "crew" /\ pc = "fetched"
    /\ pc' = "analysis_task"
    /\ UNCHANGED <<impl, stock_symbol, analysis_type, clock, calls, raw_ratios, processed_ratios,
                   financial_data, company_name, tasks, engine, result, report_md, news_md, exported,
                   retval>>
    /\ UNCHANGED beside_run

\* run_analysis, crew.py 192-195
CrewCheckData ==
    /\ impl = "crew" /\ pc = "fetched"
    /\ IF ~truthy(financial_data)
       THEN Except(<<"Could not fetch financial data for ", stock_symbol>>)
       ELSE pc' = "analysis_task" /\ UNCHANGED retval
    /\ UNCHANGED <<impl, stock_symbol, analysis_type, clock, calls, raw_ratios, processed_ratios,
                   financial_data, company_name, tasks, engine, result, report_md, news_md, exported>>
    /\ UNCHANGED beside_run

\* _create_task, crew.py 94-134: the task template is looked up in the configuration
\* (read from config/tasks.yaml) and formatted; the lookup and the format raise KeyError
\* when the configuration lacks the template or names a placeholder the context lacks
create_task(kind, agent, config_ok) ==
    IF "income_statement" \notin DOMAIN financial_data
    THEN Except(<<"'income_statement'">>) /\ UNCHANGED tasks
    ELSE IF ~config_ok
    THEN Except(<<"'", kind, "'">>) /\ UNCHANGED tasks
    ELSE tasks' = Append(tasks, Task(kind, agent)) /\ UNCHANGED retval

\* run_analysis, crew.py 207-215
CrewCreateAnalysisTask ==
    /\ impl = "crew" /\ pc = "analysis_task"
    /\ IF analysis_type \notin KnownTypes
       THEN Except(<<"Unknown analysis type: ", analysis_type>>) /\ UNCHANGED tasks
       ELSE \E config_ok \in BOOLEAN :
               /\ create_task("analysis", "financial_data_analyst", config_ok)
               /\ IF config_ok THEN pc' = "news_task" ELSE TRUE
    /\ UNCHANGED <<impl, stock_symbol, analysis_type, clock, calls, raw_ratios, processed_ratios,
                   financial_data, company_name, engine, result, report_md, news_md, exported>>
    /\ UNCHANGED beside_run

\* run_analysis, crew.py 217
CrewCreateNewsTask ==
    /\ impl = "crew" /\ pc = "news_task"
    /\ \E config_ok \in BOOLEAN :
          /\ create_task("news", "news_research_analyst", config_ok)
          /\ IF config_ok THEN pc' = "kickoff" ELSE TRUE
    /\ UNCHANGED <<impl, stock_symbol, analysis_type, clock, calls, raw_ratios, processed_ratios,
                   financial_data, company_name, engine, result, report_md, news_md, exported>>
    /\ UNCHANGED beside_run

\* run_analysis, crew.py 220-229
CrewKickoff ==
    /\ impl = "crew" /\ pc = "kickoff"
    /\ engine' = [runs |-> engine.runs + 1, tasks |-> tasks]
    /\ \/ /\ calls' = Append(calls, [op |-> "kickoff", ok |-> FALSE])
          /\ Except(<<"kickoff failed">>)
          /\ UNCHANGED result
       \/ /\ calls' = Append(calls, [op |-> "kickoff", ok |-> TRUE])
          /\ \E outs \in UNION {[1..n -> Blobs] : n \in 0..MaxOutputs} :
                result' = [i \in DOMAIN outs |-> TaskOutput(outs[i])]
          /\ pc' = "export"
          /\ UNCHANGED retval
    /\ UNCHANGED <<impl, stock_symbol, analysis_type, clock, raw_ratios, processed_ratios,
                   financial_data, company_name, tasks, report_md, news_md, exported>>
    /\ UNCHANGED beside_run

\* _export_reports, crew.py 251-265: the text of report.md
crew_report_content(symbol, type, timestamp, body) ==
    << <<"# Financial Analysis Report">>,
       <<>>,
       <<"**", "Stock Symbol:** ", symbol, "  ">>,
       <<"**", "Analysis Type:** ", title(type), "  ">>,
       <<"**", "Generated:** ", timestamp, "  ">>,
       <<"**", "Generated by:** ", "CrewAI Financial Analysis Crew">>,
       <<>>,
       <<"---">>,
       <<>>,
       <<str_of(body)>>,
       <<>>,
       <<"---">>,
       <<>>,
       <<"*This report was automatically generated by the CrewAI Financial Analysis Crew.*">> >>

\* _export_reports, crew.py 273-278: the text of news.md
crew_news_content(symbol, timestamp, body) ==
    << <<"# ", symbol, " - Recent News & Market Intelligence">>,
       <<>>,
       <<"**", "Generated on:** ", timestamp>>,
       <<>>,
       <<"---">>,
       <<>>,
       <<str_of(body)>>,
       <<>>,
       <<"---">>,
       <<>>,
       <<"*This report was generated using CrewAI with news research capabilities.*">> >>

\* _export_reports, crew.py 243-282, called at crew.py 234: one try around both writes,
\* one timestamp; report.md is written when there is a first output, then news.md when
\* there is a second; a failed write ends the function in its except clause
CrewExportReports ==
    /\ impl = "crew" /\ pc = "export"
    /\ \E now \in clock..MaxClock :
          /\ clock' = now
          /\ IF Len(result) > 0
             THEN \E w \in WriteOutcomes(report_md,
                               crew_report_content(stock_symbol, analysis_type, strftime(now), result[1])) :
                     /\ report_md' = w.file
                     /\ IF w.ok /\ Len(result) > 1
                        THEN \E v \in WriteOutcomes(news_md,
                                          crew_news_content(stock_symbol, strftime(now), result[2])) :
                                /\ news_md' = v.file
                                /\ calls' = calls \o <<[op |-> "write report.md", ok |-> TRUE],
                                                       [op |-> "write news.md", ok |-> v.ok]>>
                                /\ exported' = exported \cup {"report.md"}
                                                 \cup (IF v.ok THEN {"news.md"} ELSE {})
                        ELSE /\ UNCHANGED news_md
                             /\ calls' = Append(calls, [op |-> "write report.md", ok |-> w.ok])
                             /\ exported' = IF w.ok THEN exported \cup {"report.md"} ELSE exported
             ELSE UNCHANGED <<calls, report_md, news_md, exported>>
    /\ pc' = "return"
    /\ UNCHANGED <<impl, stock_symbol, analysis_type, raw_ratios, processed_ratios,
                   financial_data, company_name, tasks, engine, result, retval>>
    /\ UNCHANGED beside_run

\* run_analysis, crew.py 236: return result
CrewReturn ==
    /\ impl = "crew" /\ pc = "return"
    /\ retval' = ResultReturn
    /\ pc' = "done"
    /\ UNCHANGED <<impl, stock_symbol, analysis_type, clock, calls, raw_ratios, processed_ratios,
                   financial_data, company_name, tasks, engine, result, report_md, news_md, exported>>
    /\ UNCHANGED beside_run

(***************************************************************************)
(* The specification of a run of run_analysis, and of the normalizer run   *)
(* alone.                                                                  *)
(***************************************************************************)
Init ==
    /\ NormIdle
    /\ DeleteIdle
    /\ EntryIdle
    /\ InstanceIdle
    /\ impl \in {"app", "crew"}
    /\ pc = IF impl = "app" THEN "Vnstock_VCI" ELSE "company_info"
    /\ stock_symbol \in Symbols
    /\ analysis_type \in AnalysisTypes
    /\ clock = 0
    /\ calls = <<>>
    /\ raw_ratios = NoneObj
    /\ processed_ratios = NoneObj
    /\ financial_data = NotCalled
    /\ company_name = ""
    /\ tasks = <<>>
    /\ engine = [runs |-> 0, tasks |-> <<>>]
    /\ result = <<>>
    /\ \E old \in {Absent, OldFile} :
          /\ report_md = old
          /\ news_md = old
          /\ other_files = [n \in OtherNames |-> old]
    /\ exported = {}
    /\ retval = NoReturn

Next ==
    \/ fetch_financial_data
    \/ AppCheckData
    \/ AppCreateAnalysisTask
    \/ AppCreateNewsTask
    \/ AppKickoff
    \/ AppExportReport
    \/ AppExportNews
    \/ AppReturn
    \/ CrewGetCompanyInfo
    \/ CrewCheckData
    \/ CrewCreateAnalysisTask
    \/ CrewCreateNewsTask
    \/ CrewKickoff
    \/ CrewExportReports
    \/ CrewReturn

vars == <<norm_vars, run_vars, other_files, del_vars, entry_vars, inst_vars>>

Spec == Init /\ [][Next]_vars

SpecNorm == InitNorm /\ [][NextNorm]_vars

(***************************************************************************)
(* delete_reports.py: the cleanup script.  A file name is a sequence of    *)
(* pieces; the working directory is the set of names present.              *)
(***************************************************************************)
ReportMd == <<"report", ".md">>
NewsMd == <<"news", ".md">>
ExecutiveSummaryMd == <<"executive_summary", ".md">>
LockAbc == <<"chromadb-", "abc", ".lock">>
LockXyz == <<"chromadb-", "xyz", ".lock">>
OtherLock == <<"other", ".lock">>
LockBackup == <<"chromadb-", "abc", ".lock", ".bak">>

\* the names a working directory is drawn from
Names == {ReportMd, NewsMd, ExecutiveSummaryMd, LockAbc, LockXyz, OtherLock, LockBackup}

\* lines 17-21
files_to_delete == <<ReportMd, NewsMd, ExecutiveSummaryMd>>

\* (mutant) the pattern "*.lock"
glob_matches_any_lock(name) == name[Len(name)] = ".lock"

\* line 37: whether glob.glob("chromadb-*.lock") lists the name
glob_matches(name) ==
    Len(name) >= 2 /\ name[1] = "chromadb-" /\ name[Len(name)] = ".lock"

\* the orders in which glob.glob can list a set of names
Orderings(S) ==
    {q \in [1..Cardinality(S) -> S] : \A i, j \in 1..Cardinality(S) : i # j => q[i] # q[j]}

\* a printed line: its fixed text and the text formatted into it
Line(text, what) == [text |-> text, what |-> what]

\* the variables of the other programs, which the script leaves alone
beside_delete == <<norm_vars, run_vars, other_files, entry_vars, inst_vars>>

InitDelete ==
    /\ NormIdle
    /\ RunIdle
    /\ EntryIdle
    /\ InstanceIdle
    /\ cwd \in SUBSET Names
    /\ cwd_before = cwd
    /\ dpc = "start"
    /\ di = 1
    /\ lock_files = <<>>
    /\ removes = <<>>
    /\ stdout = <<>>

\* line 14
DeleteStart ==
    /\ dpc = "start"
    /\ stdout' = Append(stdout, Line("Deleting report files and temporary database files...", <<>>))
    /\ dpc' = "files"
    /\ UNCHANGED <<cwd, cwd_before, di, lock_files, removes>>
    /\ UNCHANGED beside_delete

\* lines 24-32, one iteration: the file is removed in a try of its own
DeleteReportFile ==
    /\ dpc = "files"
    /\ LET file == files_to_delete[di]
       IN IF file \in cwd
          THEN \E ok \in BOOLEAN :
                  /\ removes' = Append(removes, [file |-> file, ok |-> ok])
                  /\ IF ok
                     THEN /\ cwd' = cwd \ {file}
                          /\ stdout' = Append(stdout, Line("Deleted: ", file))
                     ELSE /\ UNCHANGED cwd
                          /\ stdout' = Append(stdout, Line("Error deleting ", file))
          ELSE /\ stdout' = Append(stdout, Line("File not found: ", file))
               /\ UNCHANGED <<cwd, removes>>
    /\ IF di < Len(files_to_delete)
       THEN di' = di + 1 /\ UNCHANGED dpc
       ELSE di' = 1 /\ dpc' = "glob"
    /\ UNCHANGED <<cwd_before, lock_files>>
    /\ UNCHANGED beside_delete

\* lines 35-37
GlobLockFiles ==
    /\ dpc = "glob"
    /\ stdout' = Append(stdout, Line("Cleaning up ChromaDB lock files...", <<>>))
    /\ lock_files' \in Orderings({name \in cwd : glob_matches(name)})
    /\ dpc' = "locks"
    /\ UNCHANGED <<cwd, cwd_before, di, removes>>
    /\ UNCHANGED beside_delete

\* lines 38-40 and 47-48, one iteration: the try is around the whole loop, so an OSError
\* leaves the loop for the except clause
RemoveLockFile ==
    /\ dpc = "locks" /\ di <= Len(lock_files)
    /\ LET lock_file == lock_files[di]
       IN \E ok \in BOOLEAN :
             /\ removes' = Append(removes, [file |-> lock_file, ok |-> ok])
             /\ IF ok
                THEN /\ cwd' = cwd \ {lock_file}
                     /\ stdout' = Append(stdout, Line("Deleted: ", lock_file))
                     /\ di' = di + 1
                     /\ UNCHANGED dpc
                ELSE /\ stdout' = Append(stdout, Line("Error cleaning ChromaDB lock files: ", lock_file))
                     /\ dpc' = "done_line"
                     /\ UNCHANGED <<cwd, di>>
    /\ UNCHANGED <<cwd_before, lock_files>>
    /\ UNCHANGED beside_delete

\* lines 42-45, after the loop
LockSummary ==
    /\ dpc = "locks" /\ di > Len(lock_files)
    /\ stdout' = Append(stdout,
                        IF lock_files = <<>>
                        THEN Line("No ChromaDB lock files found", <<>>)
                        ELSE Line("Deleted n ChromaDB lock files", <<ToString(Len(lock_files))>>))
    /\ dpc' = "done_line"
    /\ UNCHANGED <<cwd, cwd_before, di, lock_files, removes>>
    /\ UNCHANGED beside_delete

\* line 50
DeleteDone ==
    /\ dpc = "done_line"
    /\ stdout' = Append(stdout, Line("Done!", <<>>))
    /\ dpc' = "done"
    /\ UNCHANGED <<cwd, cwd_before, di, lock_files, removes>>
    /\ UNCHANGED beside_delete

delete_reports ==
    \/ DeleteStart
    \/ DeleteReportFile
    \/ GlobLockFiles
    \/ RemoveLockFile
    \/ LockSummary
    \/ DeleteDone

SpecDelete == InitDelete /\ [][delete_reports]_vars

(***************************************************************************)
(* The entry points: kickoff, run_crew and main of main.py, and main of    *)
(* app.py.  Each imports its module, constructs the analyst and calls      *)
(* run_analysis("REE", "comprehensive") once.                              *)
(***************************************************************************)
EntryPoints == {"main.kickoff", "main.run_crew", "main.main", "app.main"}

\* what os.getenv("OPENAI_API_KEY") returns after load_dotenv(): None, "" or a key
ApiKeys == {"None", "", "sk-key"}

\* `not key` for what os.getenv returned
Falsy(key) == key \in {"None", ""}

\* the variables of the other programs, which an entry point leaves alone
beside_entry == <<norm_vars, other_files, del_vars, inst_vars>>

InitMain ==
    /\ NormIdle
    /\ DeleteIdle
    /\ InstanceIdle
    /\ entry \in EntryPoints
    /\ epc = "import"
    /\ api_key \in ApiKeys
    /\ instance = "none"
    /\ console = <<>>
    /\ impl = IF entry = "app.main" THEN "app" ELSE "crew"
    /\ pc = "idle"
    /\ stock_symbol = "REE"
    /\ analysis_type = "comprehensive"
    /\ clock = 0
    /\ calls = <<>>
    /\ raw_ratios = NoneObj
    /\ processed_ratios = NoneObj
    /\ financial_data = NotCalled
    /\ company_name = ""
    /\ tasks = <<>>
    /\ engine = [runs |-> 0, tasks |-> <<>>]
    /\ result = <<>>
    /\ \E old \in {Absent, OldFile} :
          /\ report_md = old
          /\ news_md = old
          /\ other_files = [n \in OtherNames |-> old]
    /\ exported = {}
    /\ retval = NoReturn

\* main.py 7-9 and crew.py 6-22: main imports crew, which calls load_dotenv(); the entry
\* point is then called
ImportMain ==
    /\ entry # "app.main" /\ epc = "import"
    /\ epc' = "kickoff"
    /\ UNCHANGED <<entry, api_key, instance, console>>
    /\ UNCHANGED run_vars
    /\ UNCHANGED beside_entry

\* app.py 7-23: app.py calls load_dotenv(); main is then called
ImportApp ==
    /\ entry = "app.main" /\ epc = "import"
    /\ epc' = "app_main"
    /\ UNCHANGED <<entry, api_key, instance, console>>
    /\ UNCHANGED run_vars
    /\ UNCHANGED beside_entry

\* (mutant) main.py 16-28 without the test of the key
Kickoff_untested ==
    /\ entry # "app.main" /\ epc = "kickoff"
    /\ console' = Append(console, <<"Starting CrewAI Financial Analysis Crew...">>)
    /\ epc' = "construct"
    /\ UNCHANGED <<entry, api_key, instance>>
    /\ UNCHANGED run_vars
    /\ UNCHANGED beside_entry

\* kickoff, main.py 16-25 (run_crew, main.py 58, and main, main.py 64, call kickoff)
Kickoff ==
    /\ entry # "app.main" /\ epc = "kickoff"
    /\ IF Falsy(api_key)
       THEN /\ console' = console \o << <<"Starting CrewAI Financial Analysis Crew...">>,
                                       <<"Error: OPENAI_API_KEY environment variable not set.">>,
                                       <<"Please set your OpenAI API key:">>,
                                       <<"export OPENAI_API_KEY='your-api-key-here'">> >>
            /\ epc' = "returned"
       ELSE /\ console' = Append(console, <<"Starting CrewAI Financial Analysis Crew...">>)
            /\ epc' = "construct"
    /\ UNCHANGED <<entry, api_key, instance>>
    /\ UNCHANGED run_vars
    /\ UNCHANGED beside_entry

\* FinancialAnalysisCrew(), main.py 28 and crew.py 30-56: the key is tested, then the two
\* configurations are read, the LLM, the tools and the agents are made; an exception
\* reaches the except clause of kickoff, main.py 49-51
CrewInit ==
    /\ entry # "app.main" /\ epc = "construct"
    /\ IF Falsy(api_key)
       THEN /\ console' = Append(console, <<"Error running CrewAI Financial Analysis Crew: ",
                                           "OpenAI API key is required. Set OPENAI_API_KEY environment variable.">>)
            /\ epc' = "exit_1"
            /\ UNCHANGED instance
       ELSE \E ok \in BOOLEAN :
               IF ok
               THEN /\ instance' = "FinancialAnalysisCrew"
                    /\ epc' = "call"
                    /\ UNCHANGED console
               ELSE /\ console' = Append(console, <<"Error running CrewAI Financial Analysis Crew: ",
                                                   "configuration">>)
                    /\ epc' = "exit_1"
                    /\ UNCHANGED instance
    /\ UNCHANGED <<entry, api_key>>
    /\ UNCHANGED run_vars
    /\ UNCHANGED beside_entry

\* FinancialDataAnalyst(), app.py 488 and 31-54: the key is tested, then the tools, the LLM
\* and the agents are made; an exception reaches the except clause of main, app.py 506-508
AppInit ==
    /\ entry = "app.main" /\ epc = "app_main"
    /\ IF Falsy(api_key)
       THEN /\ console' = console \o << <<"Application error: ",
                                         "OpenAI API key is required. Set OPENAI_API_KEY environment variable.">>,
                                       <<"Make sure to set your OPENAI_API_KEY environment variable.">> >>
            /\ epc' = "returned"
            /\ UNCHANGED instance
       ELSE \E ok \in BOOLEAN :
               IF ok
               THEN /\ instance' = "FinancialDataAnalyst"
                    /\ epc' = "call"
                    /\ UNCHANGED console
               ELSE /\ console' = console \o << <<"Application error: ", "tools">>,
                                               <<"Make sure to set your OPENAI_API_KEY environment variable.">> >>
                    /\ epc' = "returned"
                    /\ UNCHANGED instance
    /\ UNCHANGED <<entry, api_key>>
    /\ UNCHANGED run_vars
    /\ UNCHANGED beside_entry

\* main.py 31-40 and app.py 491-499: run_analysis is entered
CallRunAnalysis ==
    /\ epc = "call"
    /\ console' = Append(console, <<"Analyzing ", "REE">>)
    /\ stock_symbol' = "REE"
    /\ analysis_type' = "comprehensive"
    /\ pc' = IF impl = "app" THEN "Vnstock_VCI" ELSE "company_info"
    /\ epc' = "in_run"
    /\ UNCHANGED <<entry, api_key, instance>>
    /\ UNCHANGED <<impl, clock, calls, raw_ratios, processed_ratios, financial_data, company_name,
                   tasks, engine, result, report_md, news_md, exported, retval>>
    /\ UNCHANGED beside_entry

\* (mutant) kickoff leaves through sys.exit(1) when run_analysis returned the error string
PrintResults_exits_on_error ==
    /\ epc = "in_run" /\ pc = "done"
    /\ console' = Append(console, IF retval.kind = "error" THEN retval.msg ELSE <<"result">>)
    /\ epc' = IF retval.kind = "error" THEN "exit_1" ELSE "returned"
    /\ UNCHANGED <<entry, api_key, instance>>
    /\ UNCHANGED run_vars
    /\ UNCHANGED beside_entry

\* main.py 42-47 and app.py 501-504: what run_analysis returned is printed
PrintResults ==
    /\ epc = "in_run" /\ pc = "done"
    /\ console' = console
                    \o << <<"ANALYSIS RESULTS">>,
                          IF retval.kind = "error" THEN retval.msg ELSE <<"result">> >>
                    \o (IF entry = "app.main" THEN <<>> ELSE << <<"Analysis completed successfully!">> >>)
    /\ epc' = "returned"
    /\ UNCHANGED <<entry, api_key, instance>>
    /\ UNCHANGED run_vars
    /\ UNCHANGED beside_entry

NextMain ==
    \/ ImportMain
    \/ ImportApp
    \/ Kickoff
    \/ CrewInit
    \/ AppInit
    \/ CallRunAnalysis
    \/ PrintResults
    \/ Next

SpecMain == InitMain /\ [][NextMain]_vars

(***************************************************************************)
(* An instance and the run_analysis calls made on it: which Agent, Task    *)
(* and Crew objects each call builds and uses.  An object is known by its  *)
(* place in the heap.                                                      *)
(***************************************************************************)
Object(class, refs) == [class |-> class, refs |-> refs]

\* the variables of the other programs
beside_instance == <<norm_vars, run_vars, other_files, del_vars, entry_vars>>

InitReuse ==
    /\ NormIdle
    /\ RunIdle
    /\ DeleteIdle
    /\ EntryIdle
    /\ owner \in {"app", "crew"}
    /\ heap = <<>>
    /\ self_agents = {}
    /\ run_log = <<>>

\* __init__, app.py 53-54 and crew.py 56: the two agents are made and kept on self
Construct ==
    /\ self_agents = {}
    /\ heap' = heap \o <<Object("Agent", {}), Object("Agent", {})>>
    /\ self_agents' = {Len(heap) + 1, Len(heap) + 2}
    /\ UNCHANGED <<owner, run_log>>
    /\ UNCHANGED beside_instance

\* (mutant) run_analysis keeps the tasks of the first call and hands them out again
RunOnInstance_keeps_tasks ==
    /\ self_agents # {} /\ Len(run_log) < MaxRuns
    /\ \E symbol \in Symbols :
          IF run_log = <<>>
          THEN /\ heap' = heap \o <<Object("Task", self_agents), Object("Task", self_agents)>>
               /\ run_log' = <<[symbol |-> symbol, tasks |-> {Len(heap) + 1, Len(heap) + 2},
                                agents |-> self_agents, crews |-> {}]>>
          ELSE /\ heap' = heap
               /\ run_log' = Append(run_log, [run_log[1] EXCEPT !.symbol = symbol])
    /\ UNCHANGED <<owner, self_agents>>
    /\ UNCHANGED beside_instance

\* run_analysis, app.py 390-400 and crew.py 207-226: an analysis Task for the first agent of
\* self (app.py 293-297, crew.py 130-134), a news Task for the second (app.py 370-374), and a
\* Crew of the agents of self and the two tasks; an exception ends the call after any of them
RunOnInstance ==
    /\ self_agents # {} /\ Len(run_log) < MaxRuns
    /\ \E symbol \in Symbols, built \in 0..2 :
          LET first == Len(heap) + 1
              agent(k) == CHOOSE a \in self_agents :
                              Cardinality({b \in self_agents : b <= a}) = k
              made == <<Object("Task", {agent(1)}), Object("Task", {agent(2)})>>
              task_ids == first..(first + built - 1)
          IN /\ heap' = heap \o SubSeq(made, 1, built)
                          \o (IF built = 2
                              THEN <<Object("Crew", self_agents \cup task_ids)>>
                              ELSE <<>>)
             /\ run_log' = Append(run_log,
                                  [symbol |-> symbol,
                                   tasks |-> task_ids,
                                   agents |-> UNION {heap'[t].refs : t \in task_ids}
                                                \cup (IF built = 2 THEN self_agents ELSE {}),
                                   crews |-> IF built = 2 THEN {first + built} ELSE {}])
    /\ UNCHANGED <<owner, self_agents>>
    /\ UNCHANGED beside_instance

NextReuse ==
    \/ Construct
    \/ RunOnInstance

SpecReuse == InitReuse /\ [][NextReuse]_vars


(***************************************************************************)
(* Vocabulary of the normalizer claims.                                    *)
(***************************************************************************)
NormDone == npc # "call"

\* a DataFrame every column label of which is made of strings
StringLabels(df) ==
    /\ df.kind = "DataFrame"
    /\ \A i \in 1..Len(df.columns) :
          IF df.multi
          THEN df.columns[i][1].type = "str" /\ df.columns[i][2].type = "str"
          ELSE df.columns[i].type = "str"

HasChar(s, S) == \E k \in 1..Len(s) : s[k] \in S

Count(s, c) == Cardinality({k \in 1..Len(s) : s[k] = c})

Whitespace == {" ", "\t"}
Rewritten == {" ", "(", ")", "%", ".", "/"}

\* the sanitisation rules as the specification lists them, in its order
CategoryRules == << <<" ", <<"_">> >>, <<"-", <<"_">> >> >>
MetricRules ==
    << <<" ", <<"_">> >>, <<"(", <<>> >>, <<")", <<>> >>, <<"%", <<"P", "c", "t">> >>,
       <<".", <<>> >>, <<"/", <<"_", "t", "o", "_">> >> >>

\* one rule rewrites every occurrence of its character
Rewrite(s, rule) ==
    LET piece(k) == IF s[k] = rule[1] THEN rule[2] ELSE <<s[k]>>
        F[k \in 0..Len(s)] == IF k = 0 THEN <<>> ELSE F[k - 1] \o piece(k)
    IN F[Len(s)]

RECURSIVE Sanitize(_, _)
Sanitize(s, rules) ==
    IF rules = <<>> THEN s ELSE Sanitize(Rewrite(s, Head(rules)), Tail(rules))

NormOut == norm_result.df

(***************************************************************************)
(* C1 (as stated): for every non-empty table whose column labels are       *)
(* strings, every column label of the returned table contains no           *)
(* whitespace character, no parenthesis, no '%', no '.' and no '/', Meta   *)
(* columns and the category part of joined labels included.                *)
(***************************************************************************)
C1_AllLabelsClean ==
    (NormDone /\ StringLabels(ratios_df) /\ ~empty(ratios_df)) =>
        /\ ~norm_result.raised
        /\ \A i \in 1..Len(NormOut.columns) :
              /\ NormOut.columns[i].type = "str"
              /\ ~HasChar(NormOut.columns[i].val, Whitespace \cup Rewritten)

(***************************************************************************)
(* C1 (amended): for every non-empty table whose column labels are         *)
(* strings, the label returned for a single-level column, and for a        *)
(* two-level column whose category is not 'Meta' and holds none of         *)
(* '(' ')' '%' '.' '/', contains no space, no parenthesis, no '%', no '.'  *)
(* and no '/'; a joined label never contains a space.                      *)
(***************************************************************************)
C1_RewrittenLabelsClean ==
    (NormDone /\ StringLabels(ratios_df) /\ ~empty(ratios_df)) =>
        /\ ~norm_result.raised
        /\ Len(NormOut.columns) = Len(ratios_df.columns)
        /\ \A i \in 1..Len(ratios_df.columns) :
              IF ~ratios_df.multi
              THEN /\ NormOut.columns[i].type = "str"
                   /\ ~HasChar(NormOut.columns[i].val, Rewritten)
              ELSE ratios_df.columns[i][1] # Str(Meta) =>
                     /\ NormOut.columns[i].type = "str"
                     /\ ~HasChar(NormOut.columns[i].val, {" "})
                     /\ ~HasChar(ratios_df.columns[i][1].val, Rewritten \ {" "})
                           => ~HasChar(NormOut.columns[i].val, Rewritten)

\* a joined label whose metric held every rewritten character has been returned
C1_Witness ==
    /\ NormDone /\ ~empty(ratios_df) /\ ratios_df.multi
    /\ ratios_df.columns = << <<Str(CapitalStructure), Str(DebtEquity)>>, <<Str(Profitability), Str(ROEPercent)>> >>
    /\ ~norm_result.raised
    /\ ~HasChar(NormOut.columns[1].val, Rewritten)
    /\ ~HasChar(NormOut.columns[2].val, Rewritten)

(***************************************************************************)
(* C2: _process_ratio_dataframe never raises, and on a malformed input (a  *)
(* label that is not a string, a label with a missing level, an object     *)
(* that is not a table) it returns the input unchanged.                    *)
(***************************************************************************)
C2_NeverRaises ==
    NormDone =>
        /\ ~norm_result.raised
        /\ ~StringLabels(ratios_df) => NormOut = ratios_df

(***************************************************************************)
(* C3: for every column of a non-empty two-level table (of string labels)  *)
(* whose category is not 'Meta', the returned label is                     *)
(* sanitize(category) + '_' + sanitize(metric) with the rules applied in   *)
(* the listed order; ('Profitability', 'ROE (%)') becomes                  *)
(* 'Profitability_ROE_Pct'; one label per input column, in input order.    *)
(***************************************************************************)
C3_JoinedLabel ==
    (NormDone /\ StringLabels(ratios_df) /\ ~empty(ratios_df) /\ ratios_df.multi) =>
        /\ ~norm_result.raised
        /\ ~NormOut.multi
        /\ Len(NormOut.columns) = Len(ratios_df.columns)
        /\ \A i \in 1..Len(ratios_df.columns) :
              LET category == ratios_df.columns[i][1]
                  metric == ratios_df.columns[i][2]
              IN /\ category # Str(Meta) =>
                       NormOut.columns[i] =
                           Str(Sanitize(category.val, CategoryRules) \o <<"_">>
                               \o Sanitize(metric.val, MetricRules))
                 /\ (category = Str(Profitability) /\ metric = Str(ROEPercent)) =>
                       NormOut.columns[i] = Str(Profitability_ROE_Pct)

\* ('Profitability', 'ROE (%)') as the second of two columns has been normalized
C3_Witness ==
    /\ NormDone /\ ~empty(ratios_df) /\ ratios_df.multi
    /\ Len(ratios_df.columns) = 2
    /\ ratios_df.columns[1] = <<Str(LongTerm), Str(<<"a", ".">>)>>
    /\ ratios_df.columns[2] = <<Str(Profitability), Str(ROEPercent)>>
    /\ ~norm_result.raised
    /\ NormOut.columns[2] = Str(Profitability_ROE_Pct)

(***************************************************************************)
(* C4: for every column of a non-empty two-level table (of string labels)  *)
(* whose category is exactly 'Meta', the returned label is the metric      *)
(* level unchanged: no prefix, no sanitisation; ('Meta', 'Ticker') becomes *)
(* 'Ticker'.                                                               *)
(***************************************************************************)
C4_MetaVerbatim ==
    (NormDone /\ StringLabels(ratios_df) /\ ~empty(ratios_df) /\ ratios_df.multi) =>
        /\ ~norm_result.raised
        /\ Len(NormOut.columns) = Len(ratios_df.columns)
        /\ \A i \in 1..Len(ratios_df.columns) :
              ratios_df.columns[i][1] = Str(Meta) => NormOut.columns[i] = ratios_df.columns[i][2]

\* ('Meta', 'Ticker') and a Meta metric holding a space have been normalized
C4_Witness ==
    /\ NormDone /\ ~empty(ratios_df) /\ ratios_df.multi
    /\ ratios_df.columns = << <<Str(Meta), Str(Ticker)>>, <<Str(Meta), Str(YearReport)>> >>
    /\ ~norm_result.raised
    /\ NormOut.columns = <<Str(Ticker), Str(YearReport)>>

(***************************************************************************)
(* C5: when the input table has no rows, it is returned unchanged: zero    *)
(* rows, exactly the input's column labels (two-level labels stay          *)
(* two-level, unsanitised labels stay unsanitised), and nothing is raised. *)
(***************************************************************************)
C5_EmptyIdentity ==
    (NormDone /\ ratios_df.kind = "DataFrame" /\ ratios_df.nrows = 0) =>
        /\ ~norm_result.raised
        /\ NormOut = ratios_df

\* a table with no rows and an unsanitised two-level label has been returned
C5_Witness ==
    /\ NormDone
    /\ ratios_df = DataFrame(0, TRUE, << <<Str(Profitability), Str(ROEPercent)>> >>)
    /\ ~norm_result.raised
    /\ NormOut.multi /\ NormOut.nrows = 0

(***************************************************************************)
(* C6: on a non-empty single-level table whose labels hold none of the     *)
(* sanitised characters, the returned labels equal the input labels, and   *)
(* normalizing the returned table again returns the same labels.           *)
(***************************************************************************)
C6_Idempotent ==
    (/\ NormDone /\ StringLabels(ratios_df) /\ ~empty(ratios_df) /\ ~ratios_df.multi
     /\ \A i \in 1..Len(ratios_df.columns) : ~HasChar(ratios_df.columns[i].val, Rewritten)) =>
        /\ ~norm_result.raised
        /\ NormOut.columns = ratios_df.columns
        /\ npc = "reapplied" =>
              /\ ~norm_again.raised
              /\ norm_again.df.columns = NormOut.columns

\* the normalizer has been applied twice to flat, sanitised labels
C6_Witness ==
    /\ npc = "reapplied"
    /\ ratios_df = DataFrame(1, FALSE, <<Str(Profitability_ROE_Pct), Str(<<"a", "-", "a">>)>>)
    /\ norm_again.df.columns = ratios_df.columns

(***************************************************************************)
(* C7: for every non-empty table with single-level string labels, each     *)
(* returned label is the metric sanitisation of the input label, rules in  *)
(* the listed order, with no category prefix; hyphens are left alone.      *)
(***************************************************************************)
C7_FlatLabel ==
    (NormDone /\ StringLabels(ratios_df) /\ ~empty(ratios_df) /\ ~ratios_df.multi) =>
        /\ ~norm_result.raised
        /\ Len(NormOut.columns) = Len(ratios_df.columns)
        /\ \A i \in 1..Len(ratios_df.columns) :
              /\ NormOut.columns[i] = Str(Sanitize(ratios_df.columns[i].val, MetricRules))
              /\ Count(NormOut.columns[i].val, "-") = Count(ratios_df.columns[i].val, "-")

\* a flat label with a hyphen and one with rewritten characters have been normalized
C7_Witness ==
    /\ NormDone /\ ~empty(ratios_df) /\ ~ratios_df.multi
    /\ ratios_df.columns = <<Str(<<"a", "-", "a">>), Str(ROEPercent)>>
    /\ ~norm_result.raised
    /\ NormOut.columns = <<Str(<<"a", "-", "a">>), Str(<<"R", "O", "E", "_", "P", "c", "t">>)>>

(***************************************************************************)
(* Vocabulary of the claims about a run.                                   *)
(***************************************************************************)
\* the statements of fetch_financial_data and those before its call
BeforeFetchReturned ==
    pc \in {"idle", "company_info", "Vnstock_VCI", "Vnstock_TCBS", "ratio", "process_ratio",
            "cash_flow", "balance_sheet", "income_statement", "dividends", "fetch_return"}

\* client construction and the five table fetches
FetchCalls ==
    {"Vnstock_VCI", "Vnstock_TCBS", "ratio", "cash_flow", "balance_sheet", "income_statement",
     "dividends"}

SomeFetchCallFailed == \E i \in 1..Len(calls) : calls[i].op \in FetchCalls /\ ~calls[i].ok

DatasetKeys ==
    {"cash_flow", "balance_sheet", "income_statement", "financial_ratios", "dividend_schedule",
     "stock_symbol"}

(***************************************************************************)
(* C8: fetch_financial_data is all-or-nothing: it returns (it never        *)
(* raises) either the mapping of exactly the five tables plus stock_symbol *)
(* equal to its argument, or the empty mapping; when any upstream call     *)
(* (client construction, any table fetch) failed, it returns the empty     *)
(* mapping, and so it does when normalizing the ratios raised.             *)
(***************************************************************************)
C8_AllOrNothing ==
    ~BeforeFetchReturned =>
        /\ financial_data # NotCalled
        /\ \/ financial_data = EmptyMapping
           \/ /\ DOMAIN financial_data = DatasetKeys
              /\ financial_data.stock_symbol = stock_symbol
        /\ SomeFetchCallFailed => financial_data = EmptyMapping
        /\ process_ratio_dataframe(copy_of(impl), raw_ratios).raised => financial_data = EmptyMapping

\* the last of the table fetches failed after all the others succeeded
C8_Witness ==
    /\ pc = "fetched"
    /\ financial_data = EmptyMapping
    /\ \E n \in 1..Len(calls) :
          /\ calls[n] = [op |-> "dividends", ok |-> FALSE]
          /\ \A i \in 1..(n - 1) : calls[i].ok

(***************************************************************************)
(* C9: when the fetcher returned the empty mapping, the run is rejected    *)
(* with the explicit error 'Could not fetch financial data for S': no      *)
(* task is ever built from an empty dataset and the crew engine is never   *)
(* started for it, in app.create_analysis_task and in                      *)
(* FinancialAnalysisCrew.run_analysis alike.                               *)
(***************************************************************************)
C9_EmptyDataRejected ==
    /\ financial_data = EmptyMapping =>
          /\ tasks = <<>>
          /\ engine.runs = 0
          /\ pc \in {"fetched", "done"}
          /\ pc = "done" =>
                retval = ErrorString(<<"Could not fetch financial data for ", stock_symbol>>)
    /\ \A i \in 1..Len(tasks) : truthy(tasks[i].data)
    /\ engine.runs > 0 => truthy(financial_data)

\* the configuration-driven run has ended on an empty dataset
C9_Witness ==
    /\ impl = "crew"
    /\ pc = "done"
    /\ financial_data = EmptyMapping
    /\ retval.kind = "error"
    /\ tasks = <<>> /\ engine.runs = 0

(***************************************************************************)
(* C10: after a successful write, report.md is a header holding            *)
(* 'Stock Symbol:** S' and the analysis type (title-cased by the writer),  *)
(* a '---' line, the first task output verbatim, a '---' line and the      *)
(* fixed footer; news.md is a header, a '---' line, the second task        *)
(* output, a '---' line and the fixed footer.                              *)
(***************************************************************************)
Separator == <<"---">>

Footers ==
    {"*This report was automatically generated by the CrewAI Financial Data Analyst agent using Vietnamese stock market data from vnstock.*",
     "*This report was automatically generated by the CrewAI Financial Analysis Crew.*",
     "*This report was generated using CrewAI with Brave Search for market intelligence.*",
     "*This report was generated using CrewAI with news research capabilities.*"}

\* lines is a header that ends at line h - 1, then separator, body, separator, footer
Templated(lines, h, body) ==
    /\ h \in 2..Len(lines)
    /\ \A j \in 1..(h - 1) : lines[j] # Separator
    /\ Len(lines) = h + 6
    /\ lines[h] = Separator
    /\ lines[h + 1] = <<>>
    /\ lines[h + 2] = <<body>>
    /\ lines[h + 3] = <<>>
    /\ lines[h + 4] = Separator
    /\ lines[h + 5] = <<>>
    /\ Len(lines[h + 6]) = 1 /\ lines[h + 6][1] \in Footers

\* some line before line h holds the pieces a, b one after the other
HeaderHolds(lines, h, a, b) ==
    \E j \in 1..(h - 1) : \E k \in 1..(Len(lines[j]) - 1) :
        lines[j][k] = a /\ lines[j][k + 1] = b

C10_ReportTemplate ==
    /\ "report.md" \in exported =>
          /\ report_md.exists
          /\ Len(result) >= 1
          /\ \E h \in 1..Len(report_md.lines) :
                /\ Templated(report_md.lines, h, result[1].raw)
                /\ HeaderHolds(report_md.lines, h, "Stock Symbol:** ", stock_symbol)
                /\ HeaderHolds(report_md.lines, h, "Analysis Type:** ", title(analysis_type))
    /\ "news.md" \in exported =>
          /\ news_md.exists
          /\ Len(result) >= 2
          /\ \E h \in 1..Len(news_md.lines) :
                /\ Templated(news_md.lines, h, result[2].raw)
                /\ HeaderHolds(news_md.lines, h, "# ", stock_symbol)

\* REE, comprehensive, 'Hello' written to report.md and a different output to news.md
C10_Witness ==
    /\ exported = {"report.md", "news.md"}
    /\ stock_symbol = "REE" /\ analysis_type = "comprehensive"
    /\ result = <<TaskOutput("Hello"), TaskOutput("---")>>
    /\ report_md.lines[3] = <<"**", "Stock Symbol:** ", "REE", "  ">>
    /\ report_md.lines[10] = <<"Hello">>
    /\ news_md.lines[7] = <<"---">>

(***************************************************************************)
(* Export and return of run_analysis.                                      *)
(***************************************************************************)
\* crew.kickoff() returned a result in this call
EngineReturned == \E i \in 1..Len(calls) : calls[i] = [op |-> "kickoff", ok |-> TRUE]

\* a write of the report writer was attempted and failed in this call
SomeWriteFailed ==
    \E i \in 1..Len(calls) : calls[i].op \in {"write report.md", "write news.md"} /\ ~calls[i].ok

\* C11: whenever the crew engine returned a result, run_analysis returns that result and
\* not an error string, whether or not a write of report.md or news.md failed.
C11_ResultSurvivesExport == (pc = "done" /\ EngineReturned) => retval = ResultReturn

(***************************************************************************)
(* The cleanup script.                                                     *)
(***************************************************************************)
\* the names the script is to delete: the three report files and the chromadb-*.lock files
ChromaLocks == {name \in Names : Len(name) >= 2 /\ name[1] = "chromadb-" /\ name[Len(name)] = ".lock"}
ReportFiles == {ReportMd, NewsMd, ExecutiveSummaryMd}
Targets == ReportFiles \cup ChromaLocks

Attempted(name) == \E i \in 1..Len(removes) : removes[i].file = name
NoRemoveFailed == \A i \in 1..Len(removes) : removes[i].ok
Printed(line) == Cardinality({i \in 1..Len(stdout) : stdout[i] = line})

\* C12: when the script has ended, the deletion of every target present at the start (the
\* three report files and each chromadb-*.lock file) was attempted, whichever deletions
\* failed.
C12_EveryTargetAttempted ==
    dpc = "done" => \A name \in Targets \cap cwd_before : Attempted(name)

\* C13: after a run of the script in which no deletion failed, no target is left and every
\* other name is still there; an absent report file has one 'File not found' line, each
\* deleted file one 'Deleted' line, no error line is printed, and the count line shows the
\* number of lock files deleted.
C13_CleanDirectory ==
    (dpc = "done" /\ NoRemoveFailed) =>
        /\ cwd = cwd_before \ Targets
        /\ \A name \in ReportFiles \ cwd_before :
              Printed(Line("File not found: ", name)) = 1 /\ Printed(Line("Deleted: ", name)) = 0
        /\ \A name \in Targets \cap cwd_before :
              Printed(Line("Deleted: ", name)) = 1 /\ Printed(Line("File not found: ", name)) = 0
        /\ \A name \in Names \ Targets : Printed(Line("Deleted: ", name)) = 0
        /\ \A i \in 1..Len(stdout) :
              stdout[i].text \notin {"Error deleting ", "Error cleaning ChromaDB lock files: "}
        /\ LET deleted == {name \in ChromaLocks : name \in cwd_before /\ name \notin cwd}
           IN /\ \A i \in 1..Len(stdout) :
                    stdout[i].text = "Deleted n ChromaDB lock files"
                        => stdout[i].what = <<ToString(Cardinality(deleted))>>
              /\ IF deleted = {}
                 THEN Printed(Line("No ChromaDB lock files found", <<>>)) = 1
                 ELSE Printed(Line("Deleted n ChromaDB lock files", <<ToString(Cardinality(deleted))>>)) = 1

\* report.md and chromadb-abc.lock were there, news.md was not: both are deleted, news.md is
\* reported as not found, the count is 1 and other.lock is still there
C13_Witness ==
    /\ dpc = "done" /\ NoRemoveFailed
    /\ cwd_before = {ReportMd, LockAbc, OtherLock, LockBackup}
    /\ cwd = {OtherLock, LockBackup}
    /\ Printed(Line("File not found: ", NewsMd)) = 1
    /\ Printed(Line("Deleted n ChromaDB lock files", <<"1">>)) = 1

(***************************************************************************)
(* The entry points without an API key.                                    *)
(***************************************************************************)
\* the entry point is over: it returned, or it left through sys.exit(1)
Ended == epc \in {"returned", "exit_1"}

\* a line that tells the user the key is missing
KeyMessages ==
    {<<"Error: OPENAI_API_KEY environment variable not set.">>,
     <<"Application error: ", "OpenAI API key is required. Set OPENAI_API_KEY environment variable.">>}
Explained == \E i \in 1..Len(console) : console[i] \in KeyMessages

Statements ==
    {"company_info", "Vnstock_VCI", "Vnstock_TCBS", "ratio", "process_ratio", "cash_flow",
     "balance_sheet", "income_statement", "dividends", "fetch_return", "fetched",
     "analysis_task", "news_task", "kickoff", "export", "export_news", "return", "done"}

\* C15: run_analysis is always inside its body or has returned, no exception leaves it: when
\* fetching, building the tasks or running the engine failed, so that the engine returned no
\* result, it returns the error string, which begins with the error marker.
C15_NeverPropagates ==
    /\ pc \in Statements
    /\ pc = "done" => retval.kind \in {"result", "error"}
    /\ (pc = "done" /\ ~EngineReturned) =>
          /\ retval.kind = "error"
          /\ retval.msg[1] = ErrorMarker
          /\ retval.msg[2] = "Error during analysis: "

\* the engine raised in FinancialAnalysisCrew.run_analysis, and the error string came back
C15_Witness ==
    /\ impl = "crew" /\ pc = "done"
    /\ calls[Len(calls)] = [op |-> "kickoff", ok |-> FALSE]
    /\ retval = ErrorString(<<"kickoff failed">>)

\* C16: within one run_analysis call no upstream operation (client construction, table
\* fetch, company lookup, engine kickoff, report-file write) is attempted twice.
C16_NoRetry ==
    /\ \A i, j \in 1..Len(calls) : i # j => calls[i].op # calls[j].op
    /\ engine.runs <= 1

\* a run in which every operation was attempted, and the write of news.md failed
C16_Witness ==
    /\ pc = "done"
    /\ {calls[i].op : i \in 1..Len(calls)} =
          FetchCalls \cup {"company_info", "kickoff", "write report.md", "write news.md"}
    /\ calls[Len(calls)] = [op |-> "write news.md", ok |-> FALSE]

(***************************************************************************)
(* The files of a run.                                                     *)
(***************************************************************************)
\* nothing of what the file held before is in it
Replaced(file) == \A i \in 1..Len(file.lines) : file.lines[i] # <<"old">>

Attempts(ops) == {i \in 1..Len(calls) : calls[i].op \in ops}
AllReturned(ops) == \A op \in ops : \E i \in 1..Len(calls) : calls[i] = [op |-> op, ok |-> TRUE]

\* the five table fetches, and the four that follow the ratio table
TableFetches == {"ratio", "cash_flow", "balance_sheet", "income_statement", "dividends"}
LaterTables == TableFetches \ {"ratio"}

\* the step in which the normalizer runs
NormalizerStep == pc = "process_ratio" /\ pc' # "process_ratio"

\* the step in which the company information is looked up
LookupStep == Len(calls') = Len(calls) + 1 /\ calls'[Len(calls')].op = "company_info"

TasksBeforeEngine ==
    /\ tasks' # tasks => (AllReturned(FetchCalls) /\ DOMAIN financial_data = DatasetKeys)
    /\ engine' # engine =>
          /\ Len(tasks) = 2 /\ tasks[1].kind = "analysis" /\ tasks[2].kind = "news"
          /\ engine'.tasks = tasks
    /\ (report_md' # report_md \/ news_md' # news_md) => EngineReturned

\* C18 as stated: the normalizer runs only after the fetcher has fetched all five tables,
\* no task is built before the dataset is complete, the engine is started only after both
\* tasks are built, analysis first, and no report file is written before the engine returned.
C18_StagesInOrder ==
    [][/\ NormalizerStep => AllReturned(TableFetches)
       /\ TasksBeforeEngine]_vars

\* C18 (amended): the normalizer runs inside the fetcher, after the ratio table is fetched
\* and before any of the other four tables is; the company lookup is the first step in
\* FinancialAnalysisCrew and follows the analysis task in app.FinancialDataAnalyst; no task
\* is built before the dataset is complete, the engine is started only after both tasks are
\* built, analysis first, and no report file is written before the engine returned.
C18_StagesInterleaved ==
    [][/\ NormalizerStep =>
             (AllReturned({"ratio"}) /\ Attempts(LaterTables) = {})
       /\ LookupStep =>
             IF impl = "crew" THEN calls = <<>> ELSE Len(tasks) = 1 /\ AllReturned(FetchCalls)
       /\ TasksBeforeEngine]_vars

\* a whole run of app.FinancialDataAnalyst on a flattened ratio table, both files written
C18_Witness ==
    /\ impl = "app" /\ pc = "done" /\ retval = ResultReturn
    /\ processed_ratios.kind = "DataFrame" /\ ~processed_ratios.multi /\ processed_ratios.columns # <<>>
    /\ exported = {"report.md", "news.md"}

(***************************************************************************)
(* Objects shared by the calls on one instance.                            *)
(***************************************************************************)
Calls == 1..Len(run_log)
AgentsInHeap == {id \in 1..Len(heap) : heap[id].class = "Agent"}

\* C19 as stated: two run_analysis calls on the same instance share no agent object and no
\* task object.
C19_NothingShared ==
    \A i, j \in Calls :
        i # j => /\ run_log[i].agents \cap run_log[j].agents = {}
                 /\ run_log[i].tasks \cap run_log[j].tasks = {}

\* C19 (amended): two run_analysis calls on the same instance share no task object and no
\* crew object; the agents every call uses are the ones the constructor made, and no call
\* makes an agent.
C19_FreshTasksSharedAgents ==
    /\ \A i, j \in Calls :
          i # j => /\ run_log[i].tasks \cap run_log[j].tasks = {}
                   /\ run_log[i].crews \cap run_log[j].crews = {}
    /\ \A i \in Calls :
          /\ run_log[i].agents \subseteq self_agents
          /\ \A t \in run_log[i].tasks : heap[t].class = "Task"
    /\ AgentsInHeap = self_agents

\* two calls that both built their crew: the same two agents, four different tasks
C19_Witness ==
    /\ Len(run_log) >= 2
    /\ run_log[1].crews # {} /\ run_log[2].crews # {}
    /\ run_log[1].agents = self_agents /\ run_log[2].agents = self_agents
    /\ Cardinality(run_log[1].tasks \cup run_log[2].tasks) = 4

(***************************************************************************)
(* An error string and the files.                                          *)
(***************************************************************************)
\* C20: whenever run_analysis has returned an error string, that call has written neither
\* report.md nor news.md.
C20_ErrorLeavesNoFile ==
    (pc = "done" /\ retval.kind = "error") => exported = {}

(***************************************************************************)
(* An analysis type without a prompt.                                      *)
(***************************************************************************)
\* the analysis types that have a prompt
NamedTypes == {"comprehensive", "profitability", "liquidity"}

SuccessLine == <<"Analysis completed successfully!">>
RunCalled == pc # "idle"
EndedWithSuccess == epc = "returned" /\ console # <<>> /\ console[Len(console)] = SuccessLine

\* C22: in main.kickoff, once run_analysis has been called, the only way kickoff ends is by
\* returning with the success line as its last print, whether run_analysis returned a
\* result or the error string, and the only step after run_analysis has returned is that
\* print; sys.exit(1) is reached only from an exception raised before run_analysis is
\* called, while FinancialAnalysisCrew is constructed.
C22_SuccessAfterRun ==
    entry # "app.main" =>
        /\ (Ended /\ RunCalled) => (pc = "done" /\ EndedWithSuccess)
        /\ (RunCalled /\ ~Ended) => epc = "in_run"
        /\ epc = "exit_1" => (~RunCalled /\ instance = "none" /\ calls = <<>>)

\* kickoff printed the success line although run_analysis returned the error string
C22_Witness ==
    /\ entry = "main.kickoff" /\ EndedWithSuccess
    /\ retval.kind = "error"
    /\ Len(calls) > 1

(***************************************************************************)
(* The two exports of a run.                                               *)
(***************************************************************************)
WriteReturned(op) == \E i \in 1..Len(calls) : calls[i] = [op |-> op, ok |-> TRUE]

\* C23: when the engine returned two task outputs and the export is over, the write of
\* news.md was attempted whether or not the write of report.md failed, and a report.md that
\* was written counts as exported whether or not the write of news.md failed.
C23_IndependentExports ==
    (pc \in {"return", "done"} /\ EngineReturned /\ Len(result) = 2) =>
        /\ Attempts({"write report.md"}) # {}
        /\ Attempts({"write news.md"}) # {}
        /\ WriteReturned("write report.md") => ("report.md" \in exported /\ Replaced(report_md))
====
